---- MODULE Spec2Model ----
(***************************************************************************)
(* The user routes of main.py (register, login, logout, GET/PUT/PATCH/     *)
(* DELETE on /users) over the users table, as a state machine.             *)
(*                                                                         *)
(* Spec, SpecPw, SpecReg : one request at a time, each action a whole      *)
(*     handler.  They differ only in the history they record (track).      *)
(* SpecConc : register requests in separate database sessions, with the    *)
(*     existence query and the commit as separate steps.                   *)
(***************************************************************************)
EXTENDS Integers, FiniteSets, Sequences, TLC

VARIABLES
    users,      \* the users table: a set of rows [id, username, email, password]
    last,       \* the last handler run and the response it returned
    track,      \* which history is recorded: "none", "pw" or "reg"
    lastPw,     \* history: per id, the password last supplied by a successful request
    effPw,      \* history: as lastPw, but an empty password in a PUT does not count
    reg,        \* history: [id, email, password] of registrations not updated/deleted since
    sess        \* SpecConc: per database session, the position of its register request

vars == <<users, last, track, lastPw, effPw, reg, sess>>

hist == <<lastPw, effPw, reg>>

(***************************************************************************)
(* Bounds and input domains                                                *)
(***************************************************************************)
MaxId == 2
MaxSess == 2

Ids == 1..MaxId                 \* primary keys the database hands out
PathIds == 0..MaxId             \* user_id path parameters; 0 is the non-positive one
Sessions == 1..MaxSess

None == "None"                  \* Python's None (a field the request body leaves out)
Empty == ""                     \* the empty string: supplied, but falsy
Usernames == {"u1", "u2"}
Emails == {"e1", "e2"}
Passwords == {"p1", "p2"}
Salts == {"s1"}

\* UserUpdate request bodies: every field optional; EmailStr rejects "".
UserUpdate ==
    [username : Usernames \cup {None},
     email    : Emails \cup {None},
     password : Passwords \cup {Empty, None}]

(***************************************************************************)
(* Password hashing                                                        *)
(***************************************************************************)
\* pwd_context.hash: a salted bcrypt string; the salt is drawn afresh per call.
get_password_hash(password, salt) ==
    "$2b$" \o salt \o "$H(" \o password \o ")"

\* pwd_context.verify: re-hash the plain password with the salt of the stored
\* hash and compare.
verify_password(plain_password, hashed_password) ==
    \E s \in Salts : hashed_password = get_password_hash(plain_password, s)

(***************************************************************************)
(* The database layer                                                      *)
(***************************************************************************)
\* Mutant: a users table without the unique constraint on username.
UsernameUnique_Off(store, row) == TRUE

\* The unique constraint on users.username, checked when a row is written.
UsernameUnique(store, row) ==
    \A r \in store : r.id # row.id => r.username # row.username

\* The id the database gives a new row: one that no row holds.
FreeIds(store) == Ids \ {r.id : r \in store}

\* db.query(User).filter(User.id == user_id)
ById(store, user_id) == {r \in store : r.id = user_id}

\* Mutant: the commit's error is swallowed and success is reported anyway.
CommitResponse_Swallow(ok, message) ==
    [status |-> 200, detail |-> message]

\* The response once db.commit() has run: an IntegrityError is not caught.
CommitResponse(ok, message) ==
    IF ok THEN [status |-> 200, detail |-> message]
          ELSE [status |-> 500, detail |-> "Internal Server Error"]

(***************************************************************************)
(* POST /register                                                          *)
(***************************************************************************)
\* Mutant: the existence query compares with != instead of ==.
RegisterLookup_Inverted(store, username) == {r \in store : r.username # username}

\* db.query(User).filter(User.username == username)
RegisterLookup(store, username) == {r \in store : r.username = username}

NewUser(id, username, password, email, salt) ==
    [id |-> id, username |-> username, email |-> email,
     password |-> get_password_hash(password, salt)]

RegisterRefused ==
    [op |-> "register", status |-> 400, detail |-> "Username already taken", new_id |-> 0]

\* db.add(new_user); db.commit(); db.refresh(new_user); return {...}
RegisterCommit(store, username, password, email, store2, response) ==
    IF UsernameUnique(store, [id |-> 0, username |-> username])
    THEN \E id \in FreeIds(store), salt \in Salts :
            /\ store2 = store \cup {NewUser(id, username, password, email, salt)}
            /\ response = [op |-> "register", new_id |-> id]
                             @@ CommitResponse(TRUE, "User registered successfully")
    ELSE /\ store2 = store
         /\ response = [op |-> "register", new_id |-> 0]
                          @@ CommitResponse(FALSE, "User registered successfully")

register_user(username, password, email) ==
    /\ IF RegisterLookup(users, username) # {}
       THEN /\ last' = RegisterRefused
            /\ users' = users
       ELSE RegisterCommit(users, username, password, email, users', last')
    /\ UNCHANGED <<track, sess>>

(***************************************************************************)
(* POST /login                                                             *)
(***************************************************************************)
\* db.query(User).filter(User.email == email): .first() takes one of these,
\* and the query states no order.
LoginLookup(store, email) == {r \in store : r.email = email}

\* Mutant: the password is not verified.
LoginResponse_NoVerify(db_user, found, password) ==
    IF ~found
    THEN [op |-> "login", status |-> 401, detail |-> "Invalid credentials", user_id |-> 0]
    ELSE [op |-> "login", status |-> 200, detail |-> "Login successful",
          user_id |-> db_user.id]

LoginResponse(db_user, found, password) ==
    IF ~found \/ ~verify_password(password, db_user.password)
    THEN [op |-> "login", status |-> 401, detail |-> "Invalid credentials", user_id |-> 0]
    ELSE [op |-> "login", status |-> 200, detail |-> "Login successful",
          user_id |-> db_user.id]

NoRow == [id |-> 0, username |-> None, email |-> None, password |-> None]

login_user(email, password) ==
    /\ IF LoginLookup(users, email) = {}
       THEN last' = LoginResponse(NoRow, FALSE, password)
       ELSE \E db_user \in LoginLookup(users, email) :
               last' = LoginResponse(db_user, TRUE, password)
    /\ UNCHANGED <<users, track, sess>>

(***************************************************************************)
(* POST /logout                                                            *)
(***************************************************************************)
\* response = RedirectResponse(...); response.delete_cookie("access_token")
LogoutRedirect ==
    [op |-> "logout", status |-> 307, detail |-> "/Blueprint",
     delete_cookies |-> {"access_token"}]

\* return JSONResponse(content={"message": ...}, status_code=200)
LogoutReturned ==
    [op |-> "logout", status |-> 200, detail |-> "Logged out successfully",
     delete_cookies |-> {}]

logout_user ==
    LET response == LogoutRedirect
    IN  last' = LogoutReturned
    /\ UNCHANGED <<users, track, sess>>

(***************************************************************************)
(* GET /users, GET /users/{user_id}                                        *)
(***************************************************************************)
get_all_users ==
    /\ last' = [op |-> "get_all", status |-> 200, detail |-> "users"]
    /\ UNCHANGED <<users, track, sess>>

\* Mutant: the path parameter carries no gt=0 validation.
GetUserResponse_NoGt(user_id, found) ==
    IF found = {}
    THEN [op |-> "get", status |-> 404, detail |-> "User not found"]
    ELSE [op |-> "get", status |-> 200, detail |-> "user"]

\* user_id: int = Path(..., gt=0) is validated before the handler runs.
GetUserResponse(user_id, found) ==
    IF ~(user_id > 0)
    THEN [op |-> "get", status |-> 422, detail |-> "greater_than"]
    ELSE IF found = {}
         THEN [op |-> "get", status |-> 404, detail |-> "User not found"]
         ELSE [op |-> "get", status |-> 200, detail |-> "user"]

get_user(user_id) ==
    /\ last' = GetUserResponse(user_id, ById(users, user_id))
    /\ UNCHANGED <<users, track, sess>>

(***************************************************************************)
(* PUT, PATCH /users/{user_id}                                             *)
(***************************************************************************)
NotFound(op) == [op |-> op, status |-> 404, detail |-> "User not found"]

\* Mutant: the password is stored as supplied, without hashing.
PutAssign_Plain(db_user, user, salt) ==
    [id       |-> db_user.id,
     username |-> IF user.username \notin {None, Empty}
                  THEN user.username ELSE db_user.username,
     email    |-> IF user.email \notin {None, Empty}
                  THEN user.email ELSE db_user.email,
     password |-> IF user.password \notin {None, Empty}
                  THEN user.password
                  ELSE db_user.password]

\* if user.username: ... if user.email: ... if user.password: ...
PutAssign(db_user, user, salt) ==
    [id       |-> db_user.id,
     username |-> IF user.username \notin {None, Empty}
                  THEN user.username ELSE db_user.username,
     email    |-> IF user.email \notin {None, Empty}
                  THEN user.email ELSE db_user.email,
     password |-> IF user.password \notin {None, Empty}
                  THEN get_password_hash(user.password, salt)
                  ELSE db_user.password]

\* Mutant: the email is assigned without the "is not None" test.
PatchAssign_Overwrite(db_user, user, salt) ==
    [id       |-> db_user.id,
     username |-> IF user.username # None THEN user.username ELSE db_user.username,
     email    |-> user.email,
     password |-> IF user.password # None
                  THEN get_password_hash(user.password, salt)
                  ELSE db_user.password]

\* if user.username is not None: ... (likewise email, password)
PatchAssign(db_user, user, salt) ==
    [id       |-> db_user.id,
     username |-> IF user.username # None THEN user.username ELSE db_user.username,
     email    |-> IF user.email # None THEN user.email ELSE db_user.email,
     password |-> IF user.password # None
                  THEN get_password_hash(user.password, salt)
                  ELSE db_user.password]

\* db.commit() of the changed row: the store afterwards and the response.
UpdateCommit(op, store, db_user, row, store2, response) ==
    LET ok == UsernameUnique(store, row)
    IN  /\ store2 = IF ok THEN (store \ {db_user}) \cup {row} ELSE store
        /\ response = [op |-> op] @@ CommitResponse(ok, "User updated successfully")

update_user(user_id, user) ==
    /\ IF ById(users, user_id) = {}
       THEN /\ last' = NotFound("put")
            /\ users' = users
       ELSE \E db_user \in ById(users, user_id), salt \in Salts :
               UpdateCommit("put", users, db_user, PutAssign(db_user, user, salt),
                            users', last')
    /\ UNCHANGED <<track, sess>>

partial_update_user(user_id, user) ==
    /\ IF ById(users, user_id) = {}
       THEN /\ last' = NotFound("patch")
            /\ users' = users
       ELSE \E db_user \in ById(users, user_id), salt \in Salts :
               UpdateCommit("patch", users, db_user, PatchAssign(db_user, user, salt),
                            users', last')
    /\ UNCHANGED <<track, sess>>

(***************************************************************************)
(* DELETE /users/{user_id}                                                 *)
(***************************************************************************)
\* db.delete(db_user); db.commit()
DeleteRow(store, db_user) == store \ {db_user}

delete_user(user_id) ==
    /\ IF ById(users, user_id) = {}
       THEN /\ last' = NotFound("delete")
            /\ users' = users
       ELSE \E db_user \in ById(users, user_id) :
               /\ users' = DeleteRow(users, db_user)
               /\ last' = [op |-> "delete", status |-> 200,
                           detail |-> "User deleted successfully"]
    /\ UNCHANGED <<track, sess>>

(***************************************************************************)
(* History of the requests (not program state)                             *)
(***************************************************************************)
HistNone == [i \in Ids |-> None]

Put(f, i, v) == [f EXCEPT ![i] = v]

\* After register(.., password, email) answered last'.
HistRegister(password, email) ==
    LET ok == last'.status = 200
        id == last'.new_id
    IN  /\ lastPw' = IF ok /\ track = "pw" THEN Put(lastPw, id, password) ELSE lastPw
        /\ effPw' = IF ok /\ track = "pw" THEN Put(effPw, id, password) ELSE effPw
        /\ reg' = IF ok /\ track = "reg"
                  THEN reg \cup {[id |-> id, email |-> email, password |-> password]}
                  ELSE reg

\* After PUT or PATCH of user_id with body user answered last'; eff is the
\* password the request counts as supplying.
HistUpdate(user_id, user, eff) ==
    LET ok == last'.status = 200
    IN  /\ lastPw' = IF ok /\ track = "pw" /\ user.password # None
                     THEN Put(lastPw, user_id, user.password) ELSE lastPw
        /\ effPw' = IF ok /\ track = "pw" /\ eff # None
                    THEN Put(effPw, user_id, eff) ELSE effPw
        /\ reg' = IF ok THEN {g \in reg : g.id # user_id} ELSE reg

\* After DELETE of user_id answered last'.
HistDelete(user_id) ==
    LET ok == last'.status = 200
    IN  /\ lastPw' = IF ok /\ track = "pw" THEN Put(lastPw, user_id, None) ELSE lastPw
        /\ effPw' = IF ok /\ track = "pw" THEN Put(effPw, user_id, None) ELSE effPw
        /\ reg' = IF ok THEN {g \in reg : g.id # user_id} ELSE reg

(***************************************************************************)
(* One request at a time                                                   *)
(***************************************************************************)
InitTrack(t) ==
    /\ users = {}
    /\ last = [op |-> "start", status |-> 0, detail |-> ""]
    /\ track = t
    /\ lastPw = HistNone
    /\ effPw = HistNone
    /\ reg = {}
    /\ sess = [s \in Sessions |-> [pc |-> "idle"]]

Init == InitTrack("none")

Next ==
    \/ \E u \in Usernames, p \in Passwords, e \in Emails :
          register_user(u, p, e) /\ HistRegister(p, e)
    \/ \E e \in Emails, p \in Passwords \cup {Empty} :
          login_user(e, p) /\ UNCHANGED hist
    \/ logout_user /\ UNCHANGED hist
    \/ get_all_users /\ UNCHANGED hist
    \/ \E i \in PathIds : get_user(i) /\ UNCHANGED hist
    \/ \E i \in PathIds, b \in UserUpdate :
          update_user(i, b)
          /\ HistUpdate(i, b, IF b.password = Empty THEN None ELSE b.password)
    \/ \E i \in PathIds, b \in UserUpdate :
          partial_update_user(i, b) /\ HistUpdate(i, b, b.password)
    \/ \E i \in PathIds : delete_user(i) /\ HistDelete(i)

Spec == Init /\ [][Next]_vars

SpecPw == InitTrack("pw") /\ [][Next]_vars

SpecReg == InitTrack("reg") /\ [][Next]_vars
(***************************************************************************)
(* Register requests in concurrent database sessions                       *)
(***************************************************************************)
\* get_db: db = SessionLocal(); yield db
\* then register_user up to its existence query and the 400 it may raise.
RegisterQuery(s, username, password, email) ==
    /\ sess[s].pc = "idle"
    /\ IF RegisterLookup(users, username) # {}
       THEN /\ last' = RegisterRefused
            /\ sess' = [sess EXCEPT ![s] = [pc |-> "done", username |-> username,
                                            response |-> RegisterRefused]]
       ELSE /\ last' = last
            /\ sess' = [sess EXCEPT ![s] = [pc |-> "queried", username |-> username,
                                            password |-> password, email |-> email]]
    /\ UNCHANGED <<users, track, hist>>

\* register_user from the hashing to the return, in a session that passed the query.
RegisterFinish(s) ==
    /\ sess[s].pc = "queried"
    /\ RegisterCommit(users, sess[s].username, sess[s].password, sess[s].email,
                      users', last')
    /\ sess' = [sess EXCEPT ![s] = [pc |-> "done", username |-> sess[s].username,
                                    response |-> last']]
    /\ UNCHANGED <<track, hist>>

\* get_db: finally db.close(), once the response is out.
SessionClose(s) ==
    /\ sess[s].pc = "done"
    /\ sess' = [sess EXCEPT ![s] = [pc |-> "idle"]]
    /\ UNCHANGED <<users, last, track, hist>>

NextConc ==
    \/ \E s \in Sessions, u \in Usernames, p \in Passwords, e \in Emails :
          RegisterQuery(s, u, p, e)
    \/ \E s \in Sessions : RegisterFinish(s)
    \/ \E s \in Sessions : SessionClose(s)

SpecConc == Init /\ [][NextConc]_vars
(***************************************************************************)
(* Properties                                                              *)
(***************************************************************************)
HashesOf(password) == {get_password_hash(password, s) : s \in Salts}

Plaintexts == Passwords \cup {Empty, None}

\* C1: in every reachable state no two persisted user records have the same
\* username (under register, PUT, PATCH and DELETE).
C1_UsernameUnique ==
    \A a, b \in users : a.username = b.username => a = b

\* C1 witness: a PUT or PATCH that would have duplicated a username was
\* turned down at commit while two users are persisted.
C1_Witness ==
    /\ last.op \in {"put", "patch"}
    /\ last.status = 500
    /\ Cardinality(users) = 2

\* C2 as stated: every persisted password is a hash of the password last
\* supplied for that user by a (successful) register, PUT or PATCH, and is
\* never a plaintext password.
C2_HashOfLastSupplied ==
    \A r \in users :
        /\ r.password \in HashesOf(lastPw[r.id])
        /\ r.password \notin Plaintexts

\* C2 amended: every persisted password is a hash of the password last
\* supplied for that user by a successful register or PATCH, or by a
\* successful PUT whose password is not empty, and is never a plaintext
\* password.
C2_HashOfLastEffective ==
    \A r \in users :
        /\ r.password \in HashesOf(effPw[r.id])
        /\ r.password \notin Plaintexts

\* C2 witness: a PUT with an empty password succeeded on a user whose stored
\* hash is that of an earlier password.
C2_Witness ==
    /\ last.op = "put"
    /\ last.status = 200
    /\ \E r \in users : lastPw[r.id] = Empty /\ effPw[r.id] \in Passwords

\* C3 as stated: the response POST /logout returns carries the deletion of
\* the access_token cookie.
C3_LogoutClearsCookie ==
    last.op = "logout" => "access_token" \in last.delete_cookies

\* C4: register with a taken username answers 400 "Username already taken"
\* and leaves the store unchanged; with a free username it answers 200 and
\* adds exactly one row, with a new id, that username, that email and a hash
\* of that password, changing no existing row.
C4_Register ==
    [][\A u \in Usernames, p \in Passwords, e \in Emails :
          register_user(u, p, e) =>
             IF \E r \in users : r.username = u
             THEN /\ last'.status = 400
                  /\ last'.detail = "Username already taken"
                  /\ users' = users
             ELSE /\ last'.status = 200
                  /\ last'.detail = "User registered successfully"
                  /\ \E row \in users' :
                        /\ users' = users \cup {row}
                        /\ row.id \notin {r.id : r \in users}
                        /\ row.username = u
                        /\ row.email = e
                        /\ row.password \in HashesOf(p)]_vars

\* C4 witness: a second user was registered.
C4_Witness ==
    /\ last.op = "register"
    /\ last.status = 200
    /\ Cardinality(users) = 2

\* C5: login answers 200 "Login successful" with a user_id only if a persisted
\* user with that id has the given email and a hash that verifies against the
\* given password; otherwise it answers 401 "Invalid credentials"; it never
\* changes the store.
C5_Login ==
    [][\A e \in Emails, p \in Passwords \cup {Empty} :
          login_user(e, p) =>
             /\ users' = users
             /\ IF last'.status = 200
                THEN /\ last'.detail = "Login successful"
                     /\ \E r \in users :
                           /\ r.id = last'.user_id
                           /\ r.email = e
                           /\ verify_password(p, r.password)
                ELSE /\ last'.status = 401
                     /\ last'.detail = "Invalid credentials"
                     /\ \/ \A r \in users : r.email # e
                        \/ \E r \in users :
                              r.email = e /\ ~verify_password(p, r.password)]_vars

\* C5 witness: a login succeeded while two users are persisted.
C5_Witness ==
    /\ last.op = "login"
    /\ last.status = 200
    /\ Cardinality(users) = 2

\* C6 as stated: while a user's record has not been updated or deleted since
\* its registration, login with the email and password of the registration
\* answers 200 with that user's id.
C6_RegisteredCanLogin ==
    [][\A g \in reg :
          login_user(g.email, g.password) =>
             last'.status = 200 /\ last'.user_id = g.id]_vars

Answers404 ==
    /\ last'.status = 404
    /\ last'.detail = "User not found"
    /\ users' = users

\* C7 as stated: GET, PUT, PATCH and DELETE with an id no persisted user has
\* answer 404 "User not found" and leave the store unchanged; after a
\* successful DELETE no user has the id.
C7_MissingIs404 ==
    [][\A i \in PathIds :
          /\ ById(users, i) = {} =>
                /\ get_user(i) => Answers404
                /\ delete_user(i) => Answers404
                /\ last'.op \in {"put", "patch"} =>
                      \A b \in UserUpdate :
                         (update_user(i, b) \/ partial_update_user(i, b))
                            => Answers404
          /\ (delete_user(i) /\ last'.status = 200) => ById(users', i) = {}]_vars

\* C7 amended: PUT, PATCH and DELETE with an id no persisted user has, and GET
\* with such an id greater than 0, answer 404 "User not found"; GET with an
\* id that is not greater than 0 answers 422; all leave the store unchanged;
\* after a successful DELETE no user has the id.
C7_MissingIs404Or422 ==
    [][\A i \in PathIds :
          /\ ById(users, i) = {} =>
                /\ get_user(i) =>
                      IF i > 0 THEN Answers404
                      ELSE last'.status = 422 /\ users' = users
                /\ delete_user(i) => Answers404
                /\ last'.op \in {"put", "patch"} =>
                      \A b \in UserUpdate :
                         (update_user(i, b) \/ partial_update_user(i, b))
                            => Answers404
          /\ (delete_user(i) /\ last'.status = 200) => ById(users', i) = {}]_vars

\* C7 witness: GET with an id that is not greater than 0 was answered 422
\* while users are persisted.
C7_Witness ==
    /\ last.op = "get"
    /\ last.status = 422
    /\ users # {}

Others(store, i) == {r \in store : r.id # i}

\* A field the body leaves out keeps its value from old to new.
KeepsOmitted(old, new, b) ==
    /\ b.username = None => new.username = old.username
    /\ b.email = None => new.email = old.email
    /\ b.password = None => new.password = old.password

\* C8: PUT, PATCH and DELETE on an existing id change no other row; PUT and
\* PATCH leave one row with the target's id, in which every field the body
\* leaves out keeps its value; after DELETE the store is the previous store
\* without the target.
C8_Frame ==
    [][\A i \in Ids :
          ById(users, i) # {} =>
             /\ last'.op \in {"put", "patch"} =>
                  \A b \in UserUpdate :
                     \/ /\ Others(users', i) = Others(users, i)
                        /\ Cardinality(ById(users', i)) = 1
                        /\ \A old \in ById(users, i), new \in ById(users', i) :
                              KeepsOmitted(old, new, b)
                     \/ ~(update_user(i, b) \/ partial_update_user(i, b))
             /\ last'.op = "delete" =>
                  (delete_user(i) =>
                     /\ users' = users \ ById(users, i)
                     /\ last'.status = 200)]_vars

\* C8 witness: a PUT succeeded on one of two persisted users.
C8_Witness ==
    /\ last.op = "put"
    /\ last.status = 200
    /\ Cardinality(users) = 2

Done(s) == sess[s].pc = "done"

Succeeded(s) == Done(s) /\ sess[s].response.status = 200

\* C9: of two register requests for the same username in concurrent
\* sessions at most one reports success, and at most one row with that
\* username is persisted.
C9_OneWinner ==
    /\ \A s1, s2 \in Sessions :
          (s1 # s2 /\ Succeeded(s1) /\ Succeeded(s2))
             => sess[s1].username # sess[s2].username
    /\ \A u \in Usernames : Cardinality(RegisterLookup(users, u)) <= 1

\* C9 witness: two sessions both passed the existence query for the same
\* username; one committed and the other's commit failed.
C9_Witness ==
    \E s1, s2 \in Sessions :
        /\ Succeeded(s1)
        /\ Done(s2)
        /\ sess[s2].response.status = 500
        /\ sess[s1].username = sess[s2].username
====
